---- MODULE Spec2Model ----
(***************************************************************************)
(* Model of app.py, the e-paper picture frame server.                      *)
(*                                                                         *)
(* Every request that renders starts its own daemon thread running         *)
(* update_epaper_thread (or clear_screen._clear); the threads share the    *)
(* epd driver object and the module globals update_counter, current_image, *)
(* rendered_data and rendering_complete.  Each blocking epd call is one    *)
(* step of the calling thread, so calls of different threads interleave.   *)
(***************************************************************************)
EXTENDS Integers, Sequences, FiniteSets, TLC

\* ---------------------------------------------------------------- bounds
MaxThreads == 2        \* thread slots of the concurrent specification
MaxUpdates == 2        \* display threads started per process run (Spec)
MaxSeqUpdates == 6     \* the same, for the one-thread specification SpecSeq
MaxHttpUpdates == 2    \* the same, for the one-thread specification SpecHttp
MaxLockUpdates == 5    \* display threads started in all in SpecLock
MaxImg == 1            \* distinct image files
MaxW == 2              \* width of a raster given to apply_dithering
MaxH == 2              \* height of a raster given to apply_dithering
MaxRestarts == 1       \* process restarts

\* ------------------------------------------------------- program constants
MaintenanceInterval == 5      \* the 5 of "count % 5 == 0"

Threads == 1..MaxThreads
Files == 1..MaxImg

\* Algorithm names a client may post to /mode/dither/set.
AlgorithmInputs == {"atkinson", "jarvis-judice-ninke", "bogus"}
\* Fit modes a client may post to /mode/fit/set.
FitInputs == {"pad", "bogus"}

\* ------------------------------------------------------------------ images
\* An image is its source file, its rotation in quarter turns, and the
\* algorithm that quantised it to the palette ("rgb" while still full colour).
None == [id |-> 0, rot |-> 0, fit |-> "none", pal |-> "none"]

\* process_image: open the file, rotate by 180 degrees, fit as configured,
\* enhance.
process_image(file, fit_mode) ==
    [id |-> file, rot |-> 2, fit |-> fit_mode, pal |-> "rgb"]

\* apply_dithering: "jarvis-judice-ninke" and unknown names take the
\* floyd-steinberg fallback; a raster that is already all palette colours
\* is left as it is.
\* An if-chain whose fallback is another algorithm.
DitherPath_FallbackStucki(algorithm) ==
    IF algorithm \in {"atkinson", "shiau-fan-2", "stucki", "burkes"}
    THEN algorithm
    ELSE IF algorithm = "floyd-steinberg" THEN algorithm ELSE "stucki"

\* The if-chain of apply_dithering: the branch taken.
DitherPath(algorithm) ==
    IF algorithm \in {"atkinson", "shiau-fan-2", "stucki", "burkes"}
    THEN algorithm ELSE "floyd-steinberg"

apply_dithering(image, algorithm) ==
    IF image.pal = "rgb" THEN [image EXCEPT !.pal = DitherPath(algorithm)]
    ELSE image

\* image.rotate(90 * quarters, expand=True)
Rotate(image, quarters) == [image EXCEPT !.rot = (image.rot + quarters) % 4]

\* d.rotate(180) saved as PNG and base64-encoded.
NoData == [png |-> None]
EncodePreview(d) == [png |-> Rotate(d, 2)]

\* ---------------------------------------------------------------- palette
\* _custom_palette, and the palette lists of the dithering functions: red,
\* green, blue, yellow, black, white.
Palette ==
    << <<255, 0, 0>>, <<0, 255, 0>>, <<0, 0, 255>>,
       <<255, 255, 0>>, <<0, 0, 0>>, <<255, 255, 255>> >>

Channels == 1..3

\* sum((old[i]-c[i])**2 for i in range(3)); np.sum(diff**2, axis=1)
Dist(color, c) ==
    (color[1] - c[1]) * (color[1] - c[1])
    + (color[2] - c[2]) * (color[2] - c[2])
    + (color[3] - c[3]) * (color[3] - c[3])

\* min(palette, key=...) and np.argmin(dist): the scan keeps an entry until
\* a strictly nearer one comes, so the first of several equally near entries
\* is returned.  i is the entry looked at, best the one kept so far.
RECURSIVE ArgMin(_, _, _)
ArgMin(color, i, best) ==
    IF i > Len(Palette) THEN best
    ELSE ArgMin(color, i + 1,
             IF Dist(color, Palette[i]) < Dist(color, Palette[best])
             THEN i ELSE best)

\* A search that returns the last of several equally near entries.
find_closest_LastWins(color) ==
    Palette[CHOOSE k \in 1..Len(Palette) :
                \A j \in 1..Len(Palette) :
                    /\ Dist(color, Palette[k]) <= Dist(color, Palette[j])
                    /\ j > k => Dist(color, Palette[k]) < Dist(color, Palette[j])]

\* find_closest(color), and new = min(palette, key=...)
find_closest(color) == Palette[ArgMin(color, 2, 1)]

\* max(0, min(255, v)); np.clip(v, 0, 255)
Clip(v) == IF v < 0 THEN 0 ELSE IF v > 255 THEN 255 ELSE v

\* ------------------------------------------------------------------- state
VARIABLES
    config,              \* the config dict, saved to config.json on every change
    update_counter,      \* module global, in memory only
    current_image,       \* module global
    rendered_data,       \* module global
    rendering_complete,  \* module global
    epd_awake,           \* power state of the panel: TRUE between Init and sleep
    pc,                  \* position of each thread
    kind,                \* "display", "clear" or "none" (slot never used)
    path,                \* file a thread has to load (0: it was given an image)
    image,               \* image argument of update_epaper_thread
    count,               \* display_image's local count
    dithered,            \* display_image's local dithered
    calls,               \* epd calls a thread has issued, in order
    raised,              \* the call of the thread that raised ("" if none)
    counter_before,      \* update_counter when the thread was started
    busy_with,           \* threads that were running when this one was started
    started,             \* display threads started in this process run
    ordinal,             \* the thread is the ordinal-th of them
    failed,              \* some call has raised since the first start
    since_clear,         \* epd.display calls since the last successful epd.Clear
    restarts,
    response,            \* the last HTTP response sent by this process
    d_pc,                \* one call of apply_dithering: where it is
    d_alg,               \* its argument algorithm
    d_fn,                \* the function and kernel it dispatched to
    d_w,                 \* width of the raster
    d_h,                 \* height of the raster
    d_orig,              \* its argument image, row by row
    d_work,              \* the working raster (pixels / arr)
    d_pos,               \* the next pixel of the scan (1 .. d_w * d_h + 1)
    d_visit,             \* the last pixel visited: old, new, and what was added
    d_out                \* the palette image returned

vars == <<config, update_counter, current_image, rendered_data,
          rendering_complete, epd_awake, pc, kind, path, image, count, dithered,
          calls, raised, counter_before, busy_with, started, ordinal, failed,
          since_clear, restarts, response,
          d_pc, d_alg, d_fn, d_w, d_h, d_orig, d_work, d_pos,
          d_visit, d_out>>

globals == <<update_counter, current_image, rendered_data, rendering_complete>>
locals == <<path, image, count, dithered>>
history == <<counter_before, busy_with, started, ordinal, failed>>
device == <<epd_awake, since_clear>>
dvars ==
    <<d_pc, d_alg, d_fn, d_w, d_h, d_orig, d_work, d_pos, d_visit, d_out>>

\* Before the first request.
NoResponse == [by |-> "", status |-> 0, body |-> <<>>]

\* return jsonify(success=True), and the error returns.
Reply(handler, code) ==
    response' = [by |-> handler, status |-> code, body |-> <<>>]

\* No call of apply_dithering is being followed.
NoFn == [name |-> "", kernel |-> <<>>, divisor |-> 0, anchor |-> <<0, 0>>]
NoVisit == [at |-> 0, old |-> <<>>, new |-> <<>>, added |-> <<>>]
NoDither ==
    /\ d_pc = "off" /\ d_alg = "" /\ d_fn = NoFn /\ d_w = 0 /\ d_h = 0
    /\ d_orig = <<>> /\ d_work = <<>> /\ d_pos = 0 /\ d_visit = NoVisit
    /\ d_out = <<>>

default_config ==
    [mode |-> "single", single_image |-> 0, pool_images |-> <<>>,
     dithering |-> "floyd-steinberg", fit_mode |-> "pad"]

DisplayPcs == {"process_image", "read_current_image", "counter", "m_Init", "m_Clear", "m_sleep",
               "Init", "dither", "display", "sleep",
               "set_current_image", "set_rendered_data", "set_complete",
               "except"}
ClearPcs == {"c_Init", "c_Clear", "c_sleep"}
EndPcs == {"done", "uncaught"}

Running(t) == pc[t] \in DisplayPcs \cup ClearPcs
Free(t) == ~Running(t)

InitThreads ==
    /\ config = default_config
    /\ update_counter = 0
    /\ current_image = None
    /\ rendered_data = NoData
    /\ rendering_complete = FALSE
    /\ epd_awake = FALSE
    /\ pc = [t \in Threads |-> "idle"]
    /\ kind = [t \in Threads |-> "none"]
    /\ path = [t \in Threads |-> 0]
    /\ image = [t \in Threads |-> None]
    /\ count = [t \in Threads |-> 0]
    /\ dithered = [t \in Threads |-> None]
    /\ calls = [t \in Threads |-> <<>>]
    /\ raised = [t \in Threads |-> ""]
    /\ counter_before = [t \in Threads |-> 0]
    /\ busy_with = [t \in Threads |-> {}]
    /\ started = 0
    /\ ordinal = [t \in Threads |-> 0]
    /\ failed = FALSE
    /\ since_clear = 0
    /\ restarts = 0
    /\ response = NoResponse

Init == InitThreads /\ NoDither

\* ------------------------------------------------------------ thread start
\* threading.Thread(target=..., daemon=True).start(): slot t starts running
\* at position first, with the values its closure captured.
Start(t, cap, k, first, file, img) ==
    /\ Free(t)
    /\ k = "display" => started < cap
    /\ started' = IF k = "display" THEN started + 1 ELSE started
    /\ ordinal' = [ordinal EXCEPT ![t] = IF k = "display" THEN started' ELSE 0]
    /\ pc' = [pc EXCEPT ![t] = first]
    /\ kind' = [kind EXCEPT ![t] = k]
    /\ path' = [path EXCEPT ![t] = file]
    /\ image' = [image EXCEPT ![t] = img]
    /\ count' = [count EXCEPT ![t] = 0]
    /\ dithered' = [dithered EXCEPT ![t] = None]
    /\ calls' = [calls EXCEPT ![t] = <<>>]
    /\ raised' = [raised EXCEPT ![t] = ""]
    /\ counter_before' = [counter_before EXCEPT ![t] = update_counter]
    /\ busy_with' = [busy_with EXCEPT ![t] = {r \in Threads \ {t} : Running(r)}]
    /\ UNCHANGED failed

\* The thread's target returned or raised: it no longer runs.
Ended(t) == busy_with' = [x \in Threads |-> busy_with[x] \ {t}]

\* ------------------------------------------------------- request handlers
\* POST /mode/single with an uploaded file f.
set_single(t, cap, f) ==
    /\ config' = [config EXCEPT !.mode = "single", !.single_image = f]
    /\ Start(t, cap, "display", "process_image", f, None)
    /\ UNCHANGED <<globals, device, restarts, dvars>>
    /\ Reply("set_single", 200)

InPool(f) == \E i \in 1..Len(config.pool_images) : config.pool_images[i] = f

\* POST /mode/pool/add with one uploaded file f.
pool_add(f) ==
    /\ ~InPool(f)
    /\ config' = [config EXCEPT !.pool_images = Append(@, f)]
    /\ UNCHANGED <<globals, device, pc, kind, locals, calls, raised, history,
                   restarts, dvars>>
    /\ Reply("pool_add", 200)

\* POST /mode/pool/set: fn is random.choice(config['pool_images']).
set_pool_mode(t, cap, fn) ==
    /\ InPool(fn)
    /\ config' = [config EXCEPT !.mode = "pool"]
    /\ Start(t, cap, "display", "process_image", fn, None)
    /\ UNCHANGED <<globals, device, restarts, dvars>>
    /\ Reply("set_pool_mode", 200)

\* The file set_fit_mode and initial_display re-render (0: nothing to render).
RenderFile(cfg, pick) ==
    IF cfg.mode = "single" /\ cfg.single_image # 0 THEN cfg.single_image
    ELSE IF cfg.mode = "pool" /\ cfg.pool_images # <<>> THEN cfg.pool_images[pick]
    ELSE 0

\* POST /mode/fit/set: process_image runs in the handler, inside its try;
\* ok is whether it returned.  With nothing to render the handler returns
\* success before it would call process_image.
set_fit_mode(t, cap, mode, ok) ==
    /\ mode \in {"pad", "zoom", "stretch"}
    /\ config' = [config EXCEPT !.fit_mode = mode]
    /\ LET file == RenderFile(config', 1) IN
         IF file # 0 /\ ok
         THEN /\ Start(t, cap, "display", "counter", 0, process_image(file, mode))
              /\ Reply("set_fit_mode", 200)
         ELSE /\ UNCHANGED <<pc, kind, locals, calls, raised, history>>
              /\ Reply("set_fit_mode", IF file = 0 THEN 200 ELSE 500)
    /\ UNCHANGED <<globals, device, restarts, dvars>>

\* POST /mode/dither/set: the thread's lambda reads the global current_image
\* when it runs.
set_dither(t, cap, alg) ==
    /\ alg \in {"floyd-steinberg", "atkinson", "shiau-fan-2",
                "jarvis-judice-ninke", "stucki", "burkes"}
    /\ config' = [config EXCEPT !.dithering = alg]
    /\ IF current_image # None
       THEN Start(t, cap, "display", "read_current_image", 0, None)
       ELSE UNCHANGED <<pc, kind, locals, calls, raised, history>>
    /\ UNCHANGED <<globals, device, restarts, dvars>>
    /\ Reply("set_dither", 200)

\* GET /rotate
rotate(t, cap) ==
    /\ current_image # None
    /\ rendering_complete' = FALSE
    /\ Start(t, cap, "display", "counter", 0, Rotate(current_image, 1))
    /\ UNCHANGED <<config, update_counter, current_image, rendered_data,
                   device, restarts, dvars>>
    /\ Reply("rotate", 200)

\* POST /clear, were clear_screen to run _clear itself instead of starting
\* a thread for it.
clear_endpoint_Inline(t, cap) ==
    /\ Free(t)
    /\ calls' = [calls EXCEPT ![t] = <<"Init", "Clear", "sleep">>]
    /\ epd_awake' = FALSE
    /\ since_clear' = 0
    /\ UNCHANGED <<config, globals, pc, kind, locals, raised, history,
                   restarts, dvars>>
    /\ Reply("clear_endpoint", 200)

\* POST /clear
clear_endpoint(t, cap) ==
    /\ Start(t, cap, "clear", "c_Init", 0, None)
    /\ UNCHANGED <<config, globals, device, restarts, dvars>>
    /\ Reply("clear_endpoint", 200)

\* GET /preview: the handler reads the global name rendered_image_data,
\* which no statement of the module binds (the preview is kept in
\* rendered_data), so evaluating the jsonify arguments raises NameError and
\* Flask answers 500.
preview ==
    /\ response' = [by |-> "preview", status |-> 500, body |-> <<>>]
    /\ UNCHANGED <<config, globals, device, pc, kind, locals, calls, raised,
                   history, restarts, dvars>>

\* ------------------------------------------------------------ thread steps
Goto(t, next) == pc' = [pc EXCEPT ![t] = next]

\* The argument expression process_image(path) of update_epaper_thread,
\* evaluated on the new thread before update_epaper_thread is entered.
ProcessImage(t, ok) ==
    /\ pc[t] = "process_image"
    /\ IF ok
       THEN /\ image' = [image EXCEPT ![t] = process_image(path[t], config.fit_mode)]
            /\ Goto(t, "counter")
            /\ UNCHANGED <<raised, busy_with, failed>>
       ELSE /\ Goto(t, "uncaught")
            /\ raised' = [raised EXCEPT ![t] = "process_image"]
            /\ failed' = TRUE
            /\ Ended(t)
            /\ UNCHANGED image
    /\ UNCHANGED <<config, globals, device, kind, path, count, dithered, calls,
                   counter_before, started, ordinal, restarts, response, dvars>>

\* set_dither's lambda: update_epaper_thread(current_image)
ReadCurrentImage(t) ==
    /\ pc[t] = "read_current_image"
    /\ image' = [image EXCEPT ![t] = current_image]
    /\ Goto(t, "counter")
    /\ UNCHANGED <<config, globals, device, kind, path, count, dithered, calls,
                   raised, history, restarts, response, dvars>>

\* The locked section with the two statements in the other order: count is
\* read before the increment.
\* The increment without the lock, in the interleaving where the counter
\* was read when the thread started and is written back now.
LockedIncrement_Stale(t) ==
    /\ pc[t] = "counter"
    /\ update_counter' = counter_before[t] + 1
    /\ count' = [count EXCEPT ![t] = update_counter']
    /\ Goto(t, IF count'[t] % MaintenanceInterval = 0 THEN "m_Init" ELSE "Init")
    /\ UNCHANGED <<config, current_image, rendered_data, rendering_complete,
                   device, kind, path, image, dithered, calls, raised, history,
                   restarts, response, dvars>>

LockedIncrement_ReadFirst(t) ==
    /\ pc[t] = "counter"
    /\ update_counter' = update_counter + 1
    /\ count' = [count EXCEPT ![t] = update_counter]
    /\ Goto(t, IF count'[t] % MaintenanceInterval = 0 THEN "m_Init" ELSE "Init")
    /\ UNCHANGED <<config, current_image, rendered_data, rendering_complete,
                   device, kind, path, image, dithered, calls, raised, history,
                   restarts, response, dvars>>

\* with counter_lock: update_counter += 1; count = update_counter
\* and the test count % 5 == 0 on the local.
LockedIncrement(t) ==
    /\ pc[t] = "counter"
    /\ update_counter' = update_counter + 1
    /\ count' = [count EXCEPT ![t] = update_counter']
    /\ Goto(t, IF count'[t] % MaintenanceInterval = 0 THEN "m_Init" ELSE "Init")
    /\ UNCHANGED <<config, current_image, rendered_data, rendering_complete,
                   device, kind, path, image, dithered, calls, raised, history,
                   restarts, response, dvars>>

\* Where a thread goes when a call raises: display_image runs inside
\* update_epaper_thread's try, _clear has no handler.
OnRaise(t) == IF kind[t] = "display" THEN "except" ELSE "uncaught"

\* One blocking call epd.<op>() at position at; ok is whether it returned.
EpdCall(t, at, op, next, ok) ==
    /\ pc[t] = at
    /\ calls' = [calls EXCEPT ![t] = Append(@, op)]
    /\ IF ok
       THEN /\ Goto(t, next)
            /\ epd_awake' = CASE op = "Init" -> TRUE
                              [] op = "sleep" -> FALSE
                              [] OTHER -> epd_awake
            /\ since_clear' = CASE op = "Clear" -> 0
                                [] op = "display" ->
                                     IF since_clear > MaintenanceInterval
                                     THEN since_clear ELSE since_clear + 1
                                [] OTHER -> since_clear
            /\ IF next = "done" THEN Ended(t) ELSE UNCHANGED busy_with
            /\ UNCHANGED <<raised, failed>>
       ELSE /\ Goto(t, OnRaise(t))
            /\ raised' = [raised EXCEPT ![t] = op]
            /\ failed' = TRUE
            /\ IF OnRaise(t) = "uncaught" THEN Ended(t) ELSE UNCHANGED busy_with
            /\ UNCHANGED device
    /\ UNCHANGED <<config, globals, kind, locals, counter_before, started,
                   ordinal, restarts, response, dvars>>

\* display_image, the full clear before the update.
MaintInit(t, ok) == EpdCall(t, "m_Init", "Init", "m_Clear", ok)
MaintClear(t, ok) == EpdCall(t, "m_Clear", "Clear", "m_sleep", ok)
MaintSleep(t, ok) == EpdCall(t, "m_sleep", "sleep", "Init", ok)

\* display_image, the standard update.
DisplayInit(t, ok) == EpdCall(t, "Init", "Init", "dither", ok)

\* ImageOps.fit, apply_dithering and epd.getbuffer.
Dither(t, ok) ==
    /\ pc[t] = "dither"
    /\ IF ok
       THEN /\ dithered' = [dithered EXCEPT ![t] =
                               apply_dithering(image[t], config.dithering)]
            /\ Goto(t, "display")
            /\ UNCHANGED <<raised, failed>>
       ELSE /\ Goto(t, "except")
            /\ raised' = [raised EXCEPT ![t] = "apply_dithering"]
            /\ failed' = TRUE
            /\ UNCHANGED dithered
    /\ UNCHANGED <<config, globals, device, kind, path, image, count, calls,
                   counter_before, busy_with, started, ordinal, restarts, response, dvars>>

DisplayBuf(t, ok) == EpdCall(t, "display", "display", "sleep", ok)
DisplaySleep(t, ok) == EpdCall(t, "sleep", "sleep", "set_current_image", ok)

\* update_epaper_thread: the three assignments after display_image returned.
SetCurrentImage(t) ==
    /\ pc[t] = "set_current_image"
    /\ current_image' = dithered[t]
    /\ Goto(t, "set_rendered_data")
    /\ UNCHANGED <<config, update_counter, rendered_data, rendering_complete,
                   device, kind, locals, calls, raised, history, restarts, response, dvars>>

SetRenderedData(t) ==
    /\ pc[t] = "set_rendered_data"
    /\ rendered_data' = EncodePreview(dithered[t])
    /\ Goto(t, "set_complete")
    /\ UNCHANGED <<config, update_counter, current_image, rendering_complete,
                   device, kind, locals, calls, raised, history, restarts, response, dvars>>

SetComplete(t) ==
    /\ pc[t] = "set_complete"
    /\ rendering_complete' = TRUE
    /\ Goto(t, "done")
    /\ Ended(t)
    /\ UNCHANGED <<config, update_counter, current_image, rendered_data,
                   device, kind, locals, calls, raised, counter_before,
                   started, ordinal, failed, restarts, response, dvars>>

\* update_epaper_thread: except Exception
Except(t) ==
    /\ pc[t] = "except"
    /\ rendering_complete' = FALSE
    /\ Goto(t, "done")
    /\ Ended(t)
    /\ UNCHANGED <<config, update_counter, current_image, rendered_data,
                   device, kind, locals, calls, raised, counter_before,
                   started, ordinal, failed, restarts, response, dvars>>

\* clear_screen._clear
ClearInit(t, ok) == EpdCall(t, "c_Init", "Init", "c_Clear", ok)
ClearClear(t, ok) == EpdCall(t, "c_Clear", "Clear", "c_sleep", ok)
ClearSleep(t, ok) == EpdCall(t, "c_sleep", "sleep", "done", ok)

\* ----------------------------------------------------------------- restart
\* The process is started again: the module is executed from the top.
\* config is loaded from config.json; update_counter, current_image,
\* rendered_data and rendering_complete get their initial values; the panel
\* is initialised and put to sleep; every thread of the old process is gone.
\* Then initial_display runs on a thread of its own (slot 1).
Restart(pick) ==
    /\ restarts < MaxRestarts
    /\ restarts' = restarts + 1
    /\ pick \in 1..Len(config.pool_images) \cup {1}
    /\ update_counter' = 0
    /\ current_image' = None
    /\ rendered_data' = NoData
    /\ rendering_complete' = FALSE
    /\ epd_awake' = FALSE
    /\ LET file == RenderFile(config, pick) IN
         /\ pc' = [t \in Threads |->
                     IF t = 1 /\ file # 0 THEN "process_image" ELSE "idle"]
         /\ kind' = [t \in Threads |->
                     IF t = 1 /\ file # 0 THEN "display" ELSE "none"]
         /\ path' = [t \in Threads |-> IF t = 1 THEN file ELSE 0]
         /\ started' = IF file # 0 THEN 1 ELSE 0
         /\ ordinal' = [t \in Threads |-> IF t = 1 /\ file # 0 THEN 1 ELSE 0]
    /\ image' = [t \in Threads |-> None]
    /\ count' = [t \in Threads |-> 0]
    /\ dithered' = [t \in Threads |-> None]
    /\ calls' = [t \in Threads |-> <<>>]
    /\ raised' = [t \in Threads |-> ""]
    /\ counter_before' = [t \in Threads |-> 0]
    /\ busy_with' = [t \in Threads |-> {}]
    /\ response' = NoResponse
    /\ UNCHANGED <<config, since_clear, failed, dvars>>

\* --------------------------------------------------------------- dithering
\* One call apply_dithering(image, algorithm), followed pixel by pixel.
threadvars ==
    <<config, globals, device, pc, kind, locals, calls, raised, history,
      restarts, response>>

\* The functions apply_dithering dispatches to, with the arguments they pass
\* to error_diffusion.
shiaufan2_dither ==
    [name |-> "error_diffusion",
     kernel |-> << <<0, 0, 0, 8, 4>>, <<2, 4, 8, 4, 2>>, <<1, 2, 4, 2, 1>> >>,
     divisor |-> 42, anchor |-> <<0, 0>>]

stucki_dither ==
    [name |-> "error_diffusion",
     kernel |-> << <<0, 0, 8, 4, 2>>, <<2, 4, 8, 4, 2>>, <<1, 2, 4, 2, 1>> >>,
     divisor |-> 42, anchor |-> <<2, 0>>]

\* A Burkes kernel without its second row.
burkes_dither_OneRow ==
    [name |-> "error_diffusion",
     kernel |-> << <<0, 0, 8, 4, 0>> >>,
     divisor |-> 32, anchor |-> <<2, 0>>]

burkes_dither ==
    [name |-> "error_diffusion",
     kernel |-> << <<0, 0, 8, 4, 0>>, <<2, 4, 8, 4, 2>> >>,
     divisor |-> 32, anchor |-> <<2, 0>>]

\* The function that is commented out in the source.
jarvis_judice_ninke_dither ==
    [name |-> "error_diffusion",
     kernel |-> << <<0, 0, 7, 5, 3>>, <<3, 5, 7, 5, 3>>, <<1, 3, 5, 3, 1>> >>,
     divisor |-> 48, anchor |-> <<2, 0>>]

\* atkinson_dither_fast: fixed offsets (dx, dy), error // 8.
atkinson_dither_fast ==
    [name |-> "atkinson_dither_fast",
     kernel |-> << <<1, 0>>, <<2, 0>>, <<-1, 1>>, <<0, 1>>, <<1, 1>>, <<0, 2>> >>,
     divisor |-> 8, anchor |-> <<0, 0>>]

\* image.convert("RGB").convert("P", palette=_palette_img,
\*                              dither=Image.FLOYDSTEINBERG)
library_convert ==
    [name |-> "convert", kernel |-> <<>>, divisor |-> 0, anchor |-> <<0, 0>>]

FnOf(branch) ==
    CASE branch = "atkinson" -> atkinson_dither_fast
      [] branch = "shiau-fan-2" -> shiaufan2_dither
      [] branch = "stucki" -> stucki_dither
      [] branch = "burkes" -> burkes_dither
      [] OTHER -> library_convert

\* The result of the library's Floyd-Steinberg conversion of an image: the
\* library is not part of the source, its result is kept as a term.
FloydSteinberg(raster) == [convert |-> "FLOYDSTEINBERG", of |-> raster]

\* The nonzero cells of a kernel in the order of the loops over dy and dx,
\* each with its offset from the current pixel.
Taps(fn) ==
    LET kw == Len(fn.kernel[1])
        cell(k) == [dx |-> ((k - 1) % kw) - fn.anchor[1],
                    dy |-> ((k - 1) \div kw) - fn.anchor[2],
                    val |-> fn.kernel[((k - 1) \div kw) + 1][((k - 1) % kw) + 1]]
        NonZero(c) == c.val # 0
    IN  SelectSeq([k \in 1..(Len(fn.kernel) * kw) |-> cell(k)], NonZero)

\* 0 <= nx < w and 0 <= ny < h
InBounds(nx, ny) == 0 <= nx /\ nx < d_w /\ 0 <= ny /\ ny < d_h

\* The position of pixel (x, y) in the row-by-row raster.
At(x, y) == y * d_w + x + 1

\* err = tuple(old[i]-new[i] for i in range(3)), taken as the old value.
Err_KeepOld(old, new) == [i \in Channels |-> old[i]]

\* err = tuple(old[i]-new[i] for i in range(3))
Err(old, new) == [i \in Channels |-> old[i] - new[i]]

\* e*val/divisor with the quotient rounded toward zero.
Truncated(e, val, divisor) ==
    IF e * val >= 0 THEN (e * val) \div divisor
    ELSE 0 - ((0 - e * val) \div divisor)

\* err[i]*val//divisor: Python's // rounds toward minus infinity, as \div.
Share(e, val, divisor) == (e * val) \div divisor

\* The loops over the kernel in error_diffusion for the pixel (x, y): acc is
\* the raster and the list of additions made so far, taps what is left of
\* the kernel.
RECURSIVE Propagate(_, _, _, _, _)
Propagate(acc, taps, x, y, err) ==
    IF taps = <<>> THEN acc
    ELSE LET tap == Head(taps)
             nx == x + tap.dx
             ny == y + tap.dy
             amount == [i \in Channels |-> Share(err[i], tap.val, d_fn.divisor)]
         IN  IF InBounds(nx, ny)
             THEN Propagate(
                      [work |-> [acc.work EXCEPT ![At(nx, ny)] =
                                    [i \in Channels |-> Clip(@[i] + amount[i])]],
                       added |-> Append(acc.added,
                                    [at |-> At(nx, ny), val |-> tap.val,
                                     err |-> err, amount |-> amount])],
                      Tail(taps), x, y, err)
             ELSE Propagate(acc, Tail(taps), x, y, err)

\* The loop over the offsets in atkinson_dither_fast: error is added as it
\* is.
RECURSIVE PropagateAtkinson(_, _, _, _, _)
PropagateAtkinson(acc, offsets, x, y, error) ==
    IF offsets = <<>> THEN acc
    ELSE LET nx == x + Head(offsets)[1]
             ny == y + Head(offsets)[2]
         IN  IF InBounds(nx, ny)
             THEN PropagateAtkinson(
                      [work |-> [acc.work EXCEPT ![At(nx, ny)] =
                                    [i \in Channels |-> Clip(@[i] + error[i])]],
                       added |-> Append(acc.added,
                                    [at |-> At(nx, ny), val |-> 1,
                                     err |-> error, amount |-> error])],
                      Tail(offsets), x, y, error)
             ELSE PropagateAtkinson(acc, Tail(offsets), x, y, error)

\* apply_dithering: the if-chain.
Dispatch ==
    /\ d_pc = "call"
    /\ d_fn' = FnOf(DitherPath(d_alg))
    /\ d_pc' = IF d_fn'.name = "convert" THEN "library" ELSE "scan"
    /\ UNCHANGED <<d_alg, d_w, d_h, d_orig, d_work, d_pos, d_visit, d_out>>
    /\ UNCHANGED threadvars

\* The library conversion of the floyd-steinberg branch and of the fallback.
convert ==
    /\ d_pc = "library"
    /\ d_out' = FloydSteinberg(d_orig)
    /\ d_pc' = "done"
    /\ UNCHANGED <<d_alg, d_fn, d_w, d_h, d_orig, d_work, d_pos, d_visit>>
    /\ UNCHANGED threadvars

\* error_diffusion: the body of the loops over y and x for one pixel.
error_diffusion ==
    /\ d_pc = "scan"
    /\ d_fn.name = "error_diffusion"
    /\ d_pos <= d_w * d_h
    /\ LET x == (d_pos - 1) % d_w
           y == (d_pos - 1) \div d_w
           old == d_work[d_pos]
           new == find_closest(old)
           written == [d_work EXCEPT ![d_pos] = new]
           err == Err(old, new)
           end == Propagate([work |-> written, added |-> <<>>],
                            Taps(d_fn), x, y, err)
       IN  /\ d_work' = end.work
           /\ d_visit' = [at |-> d_pos, old |-> old, new |-> new,
                          added |-> end.added]
    /\ d_pos' = d_pos + 1
    /\ UNCHANGED <<d_pc, d_alg, d_fn, d_w, d_h, d_orig, d_out>>
    /\ UNCHANGED threadvars

\* atkinson_dither_fast: the body of the loops for one pixel.  old_pixel is
\* arr[y, x], a view of the row of the array and not a copy of it: once
\* arr[y, x] = new_pixel has run, old_pixel reads the new values.
atkinson_dither_fast_pixel ==
    /\ d_pc = "scan"
    /\ d_fn.name = "atkinson_dither_fast"
    /\ d_pos <= d_w * d_h
    /\ LET x == (d_pos - 1) % d_w
           y == (d_pos - 1) \div d_w
           new_pixel == find_closest(d_work[d_pos])
           arr == [d_work EXCEPT ![d_pos] = new_pixel]
           old_pixel == arr[d_pos]
           error == [i \in Channels |->
                        (old_pixel[i] - new_pixel[i]) \div d_fn.divisor]
           end == PropagateAtkinson([work |-> arr, added |-> <<>>],
                                    d_fn.kernel, x, y, error)
       IN  /\ d_work' = end.work
           /\ d_visit' = [at |-> d_pos, old |-> d_work[d_pos],
                          new |-> new_pixel, added |-> end.added]
    /\ d_pos' = d_pos + 1
    /\ UNCHANGED <<d_pc, d_alg, d_fn, d_w, d_h, d_orig, d_out>>
    /\ UNCHANGED threadvars

\* return img.convert("P", palette=_palette_img, dither=Image.NONE): every
\* pixel becomes the index of its nearest palette entry.
Return ==
    /\ d_pc = "scan"
    /\ d_pos = d_w * d_h + 1
    /\ d_out' = [i \in 1..(d_w * d_h) |-> ArgMin(d_work[i], 2, 1) - 1]
    /\ d_pc' = "done"
    /\ UNCHANGED <<d_alg, d_fn, d_w, d_h, d_orig, d_work, d_pos, d_visit>>
    /\ UNCHANGED threadvars

\* The colours of a palette image.
Colours(out) == [i \in 1..Len(out) |-> Palette[out[i] + 1]]

\* -------------------------------------------------------------------- next
Requests(T, cap) ==
    \/ \E t \in T, f \in Files : set_single(t, cap, f)
    \/ \E t \in T, alg \in AlgorithmInputs : set_dither(t, cap, alg)
    \/ \E t \in T : rotate(t, cap)
    \/ \E t \in T : clear_endpoint(t, cap)

PoolAndFitRequests(T, cap) ==
    \/ \E f \in Files : pool_add(f)
    \/ \E t \in T, fn \in Files : set_pool_mode(t, cap, fn)
    \/ \E t \in T, mode \in FitInputs, ok \in BOOLEAN : set_fit_mode(t, cap, mode, ok)

\* ok: whether a call that can fail returns.
ThreadSteps(T) ==
    \/ \E t \in T, ok \in BOOLEAN : ProcessImage(t, ok)
    \/ \E t \in T : ReadCurrentImage(t)
    \/ \E t \in T : LockedIncrement(t)
    \/ \E t \in T, ok \in BOOLEAN : DisplayInit(t, ok)
    \/ \E t \in T, ok \in BOOLEAN : Dither(t, ok)
    \/ \E t \in T, ok \in BOOLEAN : DisplayBuf(t, ok)
    \/ \E t \in T, ok \in BOOLEAN : DisplaySleep(t, ok)
    \/ \E t \in T : SetCurrentImage(t)
    \/ \E t \in T : SetRenderedData(t)
    \/ \E t \in T : SetComplete(t)
    \/ \E t \in T : Except(t)
    \/ \E t \in T, ok \in BOOLEAN : ClearInit(t, ok)
    \/ \E t \in T, ok \in BOOLEAN : ClearClear(t, ok)
    \/ \E t \in T, ok \in BOOLEAN : ClearSleep(t, ok)

\* The full clear cycle of display_image, entered when count % 5 = 0.
MaintenanceSteps(T) ==
    \/ \E t \in T, ok \in BOOLEAN : MaintInit(t, ok)
    \/ \E t \in T, ok \in BOOLEAN : MaintClear(t, ok)
    \/ \E t \in T, ok \in BOOLEAN : MaintSleep(t, ok)

\* Concurrent requests, each on a thread of its own.  MaxUpdates is below
\* MaintenanceInterval, so no thread of Spec enters the full clear cycle;
\* SpecSeq covers it.  The pool and fit requests are in SpecHttp.
Next ==
    \/ Requests(Threads, MaxUpdates)
    \/ ThreadSteps(Threads)

Spec == Init /\ [][Next]_vars

\* One request at a time, by a client that uploads single images, changes
\* the algorithm, rotates and clears: with one thread slot a request is
\* made only when no thread is running.  Calls may raise and the process
\* may be restarted.
NextSeq ==
    \/ Requests({1}, MaxSeqUpdates)
    \/ ThreadSteps({1})
    \/ MaintenanceSteps({1})
    \/ \E pick \in 1..MaxImg : Restart(pick)

SpecSeq == Init /\ [][NextSeq]_vars

\* The requests and their responses, one thread slot, no restart.
NextHttp ==
    \/ Requests({1}, MaxHttpUpdates)
    \/ PoolAndFitRequests({1}, MaxHttpUpdates)
    \/ preview
    \/ ThreadSteps({1})

SpecHttp == Init /\ [][NextHttp]_vars

\* Concurrent calls of display_image around the first multiple of 5.  The
\* run starts where three POST /mode/single with file 1 have been served
\* one after the other without failure (a state SpecSeq reaches); from
\* there the same file is posted again on every thread slot and no call
\* fails.
SettledUpdates == MaintenanceInterval - 2

AfterSettledUpdates ==
    LET shown == apply_dithering(process_image(1, default_config.fit_mode),
                                 default_config.dithering)
        first(x, rest) == [t \in Threads |-> IF t = 1 THEN x ELSE rest]
    IN  /\ config = [default_config EXCEPT !.single_image = 1]
        /\ update_counter = SettledUpdates
        /\ current_image = shown
        /\ rendered_data = EncodePreview(shown)
        /\ rendering_complete = TRUE
        /\ epd_awake = FALSE
        /\ pc = first("done", "idle")
        /\ kind = first("display", "none")
        /\ path = first(1, 0)
        /\ image = first(process_image(1, default_config.fit_mode), None)
        /\ count = first(SettledUpdates, 0)
        /\ dithered = first(shown, None)
        /\ calls = first(<<"Init", "display", "sleep">>, <<>>)
        /\ raised = [t \in Threads |-> ""]
        /\ counter_before = first(SettledUpdates - 1, 0)
        /\ busy_with = [t \in Threads |-> {}]
        /\ started = SettledUpdates
        /\ ordinal = first(SettledUpdates, 0)
        /\ failed = FALSE
        /\ since_clear = SettledUpdates
        /\ restarts = 0
        /\ response = [by |-> "set_single", status |-> 200, body |-> <<>>]
        /\ NoDither

NextLock ==
    \/ \E t \in Threads : set_single(t, MaxLockUpdates, config.single_image)
    \/ \E t \in Threads : ProcessImage(t, TRUE)
    \/ \E t \in Threads : LockedIncrement(t)
    \/ \E t \in Threads : MaintInit(t, TRUE)
    \/ \E t \in Threads : MaintClear(t, TRUE)
    \/ \E t \in Threads : MaintSleep(t, TRUE)
    \/ \E t \in Threads : DisplayInit(t, TRUE)
    \/ \E t \in Threads : Dither(t, TRUE)
    \/ \E t \in Threads : DisplayBuf(t, TRUE)
    \/ \E t \in Threads : DisplaySleep(t, TRUE)
    \/ \E t \in Threads : SetCurrentImage(t)
    \/ \E t \in Threads : SetRenderedData(t)
    \/ \E t \in Threads : SetComplete(t)

SpecLock == AfterSettledUpdates /\ [][NextLock]_vars

\* One call of apply_dithering for every algorithm name and every raster of
\* the bounded set: the first pixel a, the second b, the others c.
AlgorithmNames ==
    {"floyd-steinberg", "atkinson", "shiau-fan-2", "jarvis-judice-ninke",
     "stucki", "burkes", "bogus"}

Samples ==
    {Palette[i] : i \in 1..Len(Palette)}
    \cup {<<200, 0, 0>>, <<128, 127, 255>>, <<128, 128, 128>>,
          <<140, 140, 140>>}

Raster(a, b, c, n) ==
    [i \in 1..n |-> IF i = 1 THEN a ELSE IF i = 2 THEN b ELSE c]

InitDither ==
    /\ InitThreads
    /\ d_pc = "call"
    /\ d_alg \in AlgorithmNames
    /\ d_fn = NoFn
    /\ d_w \in 1..MaxW
    /\ d_h \in 1..MaxH
    /\ \E a \in Samples, b \in Samples, c \in Samples :
          d_orig = Raster(a, b, c, d_w * d_h)
    /\ d_work = d_orig
    /\ d_pos = 1
    /\ d_visit = NoVisit
    /\ d_out = <<>>

NextDither ==
    \/ Dispatch
    \/ convert
    \/ error_diffusion
    \/ atkinson_dither_fast_pixel
    \/ Return

SpecDither == InitDither /\ [][NextDither]_vars

\* ------------------------------------------------------------------ claims
Shown(t) == \E i \in 1..Len(calls[t]) : calls[t][i] = "display"
Cleared(t) == \E i \in 1..Len(calls[t]) : calls[t][i] = "Clear"
LastCall(t) == IF calls[t] = <<>> THEN "" ELSE calls[t][Len(calls[t])]

\* A thread is in flight from its first epd.Init until its last epd.sleep
\* has returned or a call has raised.
InFlight(t) ==
    /\ calls[t] # <<>>
    /\ pc[t] \in {"m_Clear", "m_sleep", "Init", "dither", "display", "sleep",
                  "c_Clear", "c_sleep"}

\* C1: at most one device task is in flight at any time: no thread issues an
\* epd call while another thread is between its first Init and its last sleep.
C1_AtMostOneInFlight == Cardinality({t \in Threads : InFlight(t)}) <= 1

\* C2: last-task-wins coalescing: when a display request arrives while the
\* device task during which an earlier display request t arrived is still
\* executing, t is superseded: it has not been passed to epd.display.
C2_SupersededNeverShown ==
    [][\A u \in Threads :
         (Free(u) /\ pc'[u] \in DisplayPcs)
         => \A t \in Threads :
              (kind[t] = "display" /\ \E r \in busy_with[t] : Running(r))
              => ~Shown(t)]_vars

C4_FailedDisplayKeepsCounter ==
    \A t \in Threads :
        (kind[t] = "display" /\ pc[t] = "done" /\ raised[t] # "")
        => update_counter = counter_before[t]

\* C5: the counter survives a restart, so that, failures aside, never more
\* than N displays happen between two maintenance clears.
C5_ClearsWithinInterval == ~failed => since_clear <= MaintenanceInterval

\* C6: a finished display task has issued Init, optionally Clear, display,
\* sleep; a finished clear task Init, Clear, sleep; and no thread is about to
\* issue Clear or display while the panel is asleep.
C6_SessionProtocol ==
    \A t \in Threads :
        /\ (kind[t] = "display" /\ pc[t] = "done" /\ raised[t] = "")
           => calls[t] \in {<<"Init", "display", "sleep">>,
                            <<"Init", "Clear", "display", "sleep">>}
        /\ (kind[t] = "clear" /\ pc[t] = "done")
           => calls[t] = <<"Init", "Clear", "sleep">>
        /\ pc[t] \in {"m_Clear", "c_Clear", "display"} => epd_awake

\* C7: a task in which Init, Clear or display raised has attempted sleep
\* afterwards by the time it ends.
C7_SleepAfterFailure ==
    \A t \in Threads :
        (pc[t] \in EndPcs /\ raised[t] \in {"Init", "Clear", "display"})
        => LastCall(t) = "sleep"

\* C8: a task in which anything raised ends in the handler of
\* update_epaper_thread, with rendering_complete false; nothing escapes the
\* thread.
C8_ErrorsCaught ==
    \A t \in Threads :
        (pc[t] \in EndPcs /\ raised[t] # "")
        => (pc[t] = "done" /\ ~rendering_complete)

\* C9: every step that starts a display or clear thread leaves
\* rendering_complete false.
C9_SubmitResetsFlag ==
    [][(\E t \in Threads : Free(t) /\ Running(t)') => ~rendering_complete']_vars

\* C10: whenever rendering_complete is true, rendered_data is the encoded
\* preview of current_image.
C10_PreviewNotTorn ==
    rendering_complete => rendered_data = EncodePreview(current_image)

\* A step in which the handler named answers (a repeated identical answer
\* that changes nothing is a stuttering step).
Answers(handler) == response' # response /\ response'.by = handler

\* C11: GET /preview never raises: it answers 200 with the pair
\* (rendered_data, rendering_complete) as published at that moment, and it
\* changes no shared state.
C11_PreviewReturnsPublished ==
    [][Answers("preview") =>
          /\ response'.status = 200
          /\ response'.body = <<rendered_data, rendering_complete>>
          /\ UNCHANGED <<config, globals, device>>]_vars

\* The first position of a thread a handler starts.
FirstPcs == {"process_image", "read_current_image", "counter", "c_Init"}

\* A step of a request handler: no running thread moves.
HandlerStep == \A t \in Threads : Running(t) => pc'[t] = pc[t]

\* C17: no request handler calls epd on its own thread or waits for the
\* task it starts: a handler step leaves the device alone, records no epd
\* call, and a thread it starts is still at its first position when the
\* handler has answered.
C17_HandlersNeverTouchDevice ==
    [][HandlerStep =>
          /\ UNCHANGED device
          /\ \A t \in Threads :
                /\ calls'[t] # calls[t] => calls'[t] = <<>>
                /\ pc'[t] # pc[t] => pc'[t] \in FirstPcs]_vars

\* POST /clear has answered, the device has been cleared before, and the
\* new clear thread has not made its first epd call.
C17_Witness ==
    /\ response.by = "clear_endpoint"
    /\ pc[1] = "c_Init"
    /\ calls[1] = <<>>
    /\ since_clear > 0

\* The handlers that submit a render request.
SubmissionHandlers ==
    {"set_single", "set_pool_mode", "set_fit_mode", "set_dither", "rotate"}

\* C18: whatever fails in preparing or showing the image, a submission
\* handler answers that the request was accepted.
C18_SubmissionAlwaysAccepted ==
    response.by \in SubmissionHandlers => response.status = 200

\* C12: the colour chosen for a visited pixel is a palette entry at minimal
\* squared distance from the pixel's value, the earliest such entry in the
\* order red, green, blue, yellow, black, white; a palette colour is chosen
\* for itself.
C12_NearestFirstMinimum ==
    d_visit # NoVisit =>
        /\ \E k \in 1..Len(Palette) :
              /\ d_visit.new = Palette[k]
              /\ \A j \in 1..Len(Palette) :
                    /\ Dist(d_visit.old, Palette[k]) <= Dist(d_visit.old, Palette[j])
                    /\ j < k =>
                         Dist(d_visit.old, Palette[k]) < Dist(d_visit.old, Palette[j])
        /\ (\E k \in 1..Len(Palette) : d_visit.old = Palette[k]) =>
              d_visit.new = d_visit.old

\* A visited pixel whose value is equally near to two palette entries, both
\* at the minimal distance.
C12_Witness ==
    /\ d_visit # NoVisit
    /\ \E j \in 1..Len(Palette), k \in 1..Len(Palette) :
          /\ j < k
          /\ d_visit.new = Palette[j]
          /\ Dist(d_visit.old, Palette[j]) = Dist(d_visit.old, Palette[k])

\* The algorithms with a diffusion pass of their own.
DiffusionNames == {"atkinson", "shiau-fan-2", "stucki", "burkes"}

\* Every pixel of the raster is a palette colour.
AllPalette(raster) ==
    \A i \in 1..Len(raster) : \E k \in 1..Len(Palette) : raster[i] = Palette[k]

\* C13: a raster of palette colours goes through Atkinson, Shiau-Fan-2,
\* Stucki and Burkes unchanged: every amount added is zero, the working
\* raster is the input throughout the pass, and so is the image returned.
C13_PaletteRasterUnchanged ==
    (d_alg \in DiffusionNames /\ AllPalette(d_orig)) =>
        /\ d_work = d_orig
        /\ \A n \in 1..Len(d_visit.added) :
              \A i \in Channels : d_visit.added[n].amount[i] = 0
        /\ d_pc = "done" => Colours(d_out) = d_orig

\* A Stucki pass over four palette pixels, not all the same, has returned,
\* and its last pixel had targets in bounds.
C13_Witness ==
    /\ d_pc = "done"
    /\ d_alg = "stucki"
    /\ AllPalette(d_orig)
    /\ Len(d_orig) = 4
    /\ d_orig[1] # d_orig[2]
    /\ d_visit.added # <<>>

\* C14: every amount added to a target is error*w/divisor rounded toward
\* zero, error being the visited pixel's value minus the colour chosen for
\* it; Atkinson adds error/8 rounded toward zero.
C14_AmountsTruncated ==
    \A n \in 1..Len(d_visit.added) : \A i \in Channels :
        d_visit.added[n].amount[i] =
            Truncated(d_visit.old[i] - d_visit.new[i], d_visit.added[n].val,
                      d_fn.divisor)

\* The names that have a branch in the if-chain of apply_dithering.
RecognisedNames == DiffusionNames \cup {"floyd-steinberg"}

\* C15: for a name that is not recognised apply_dithering raises nothing
\* and returns what the "floyd-steinberg" branch returns for the same image:
\* the library's Floyd-Steinberg conversion of the input.
C15_UnknownNameFallsBack ==
    d_alg \notin RecognisedNames =>
        /\ d_pc \in {"call", "library", "done"}
        /\ d_pc # "call" => d_fn = FnOf("floyd-steinberg")
        /\ d_pc = "done" => d_out = FloydSteinberg(d_orig)

\* The call with the name "bogus" has returned.
C15_Witness ==
    /\ d_alg = "bogus"
    /\ d_pc = "done"
    /\ d_out = FloydSteinberg(d_orig)
    /\ Len(d_orig) > 1

\* C16: the name "jarvis-judice-ninke" makes apply_dithering run the
\* generic error diffusion with the kernel [0,0,7,5,3], [3,5,7,5,3],
\* [1,3,5,3,1], divisor 48 and anchor (2,0).
C16_JarvisRunsItsKernel ==
    (d_alg = "jarvis-judice-ninke" /\ d_pc # "call") =>
        d_fn = jarvis_judice_ninke_dither

\* C19, as stated: on a raster of width 1 Burkes has no target in bounds,
\* nothing is added anywhere, and every pixel returned is the nearest palette
\* colour of the input pixel.
C19_Width1NoTargets ==
    (d_alg = "burkes" /\ d_w = 1) =>
        /\ d_visit.added = <<>>
        /\ d_pc = "done" =>
              \A i \in 1..Len(d_orig) : Colours(d_out)[i] = find_closest(d_orig[i])

\* The value pixel i of a one-pixel-wide raster has when Burkes visits it:
\* the input value for the first row, below it the input value plus the
\* share of the error of the pixel above that the weight under the anchor
\* gives, clamped.
RECURSIVE ValueAtVisit(_, _)
ValueAtVisit(raster, i) ==
    IF i = 1 THEN raster[1]
    ELSE LET above == ValueAtVisit(raster, i - 1)
             err == Err(above, find_closest(above))
         IN  [c \in Channels |->
                 Clip(raster[i][c] + Share(err[c], burkes_dither.kernel[2][3],
                                           burkes_dither.divisor))]

\* C19, amended: on a raster of width 1 the targets of a Burkes visit are
\* the visited pixel itself and the pixel directly below it; every pixel
\* returned is the nearest palette colour of the value the pixel has when it
\* is visited; the column [(200,0,0), (0,0,0)] gives [red, black].
C19_Width1Burkes ==
    (d_alg = "burkes" /\ d_w = 1) =>
        /\ \A n \in 1..Len(d_visit.added) :
              d_visit.added[n].at \in {d_visit.at, d_visit.at + 1}
        /\ d_visit # NoVisit =>
              /\ d_visit.old = ValueAtVisit(d_orig, d_visit.at)
              /\ Len(d_visit.added) = IF d_visit.at < d_h THEN 2 ELSE 1
        /\ d_pc = "done" =>
              /\ \A i \in 1..Len(d_orig) :
                    Colours(d_out)[i] = find_closest(ValueAtVisit(d_orig, i))
              /\ d_orig = << <<200, 0, 0>>, <<0, 0, 0>> >> =>
                    Colours(d_out) = <<Palette[1], Palette[5]>>

\* Burkes has returned [red, black] for the column [(200,0,0), (0,0,0)].
C19_Witness ==
    /\ d_alg = "burkes"
    /\ d_w = 1
    /\ d_pc = "done"
    /\ d_orig = << <<200, 0, 0>>, <<0, 0, 0>> >>
    /\ Colours(d_out) = <<Palette[1], Palette[5]>>
    /\ d_work[1] # Palette[1]

\* C20: in error_diffusion a visited pixel keeps the palette colour written
\* to it, no later addition changes it: during and after the pass every
\* visited pixel of the working raster is a palette colour, the last one
\* visited the colour chosen for it.
C20_VisitedNeverModified ==
    d_fn.name = "error_diffusion" =>
        /\ d_visit # NoVisit => d_work[d_visit.at] = d_visit.new
        /\ \A i \in 1..(d_pos - 1) : \E k \in 1..Len(Palette) : d_work[i] = Palette[k]

\* The interval the comment above the test in display_image names.
CommentedInterval == 10

\* C21: the full clear cycle runs on exactly the calls of display_image
\* whose ordinal since the process started is a multiple of 10: a call that
\* has cleared has such an ordinal, and a call with such an ordinal that
\* has reached the standard update has cleared.
C21_ClearEveryTenth ==
    \A t \in Threads :
        (kind[t] = "display" /\ count[t] > 0) =>
            /\ Cleared(t) => count[t] % CommentedInterval = 0
            /\ (count[t] % CommentedInterval = 0 /\ Shown(t)) => Cleared(t)

\* The display threads that have not yet left the locked section of
\* display_image.
BeforeLock == {t \in Threads : pc[t] \in {"process_image", "counter"}}

\* The thread is in, or has been through, the full clear cycle.
InMaintenance(t) == pc[t] \in {"m_Init", "m_Clear", "m_sleep"} \/ Cleared(t)

\* What holds of the counts between steps: no two calls hold the same
\* count, update_counter is the number of calls that have left the locked
\* section, and a call runs the full clear cycle exactly when its count is
\* a multiple of 5.
CountsConsistent ==
    /\ \A t \in Threads, u \in Threads :
          (t # u /\ count[t] > 0 /\ count[u] > 0) => count[t] # count[u]
    /\ update_counter = started - Cardinality(BeforeLock)
    /\ \A t \in Threads :
          (kind[t] = "display" /\ count[t] > 0) =>
              (InMaintenance(t) <=> count[t] % MaintenanceInterval = 0)

====
